---- MODULE Spec2Model ----
(***************************************************************************)
(* A model of winres (src/lib.rs): the WindowsResource builder, the        *)
(* resource-script writer and the toolchain driver.                        *)
(*                                                                         *)
(* Representation.                                                         *)
(*   Option<T>      None is <<>>, Some(x) is <<x>>.                        *)
(*   String         a TLA+ string; characters are one-character strings.   *)
(*   u16            a natural number below 2^16.                           *)
(*   u64            four 16-bit limbs <<w0, w1, w2, w3>>, w0 the least     *)
(*                  significant; every shift of the source is by a         *)
(*                  multiple of 16 bits, so limbs are exact.               *)
(*   HashMap<K,V>   a function whose domain is the set of keys; what the   *)
(*                  writer emits while iterating a map is a bag of lines   *)
(*                  (the iteration order is unspecified).                  *)
(***************************************************************************)
EXTENDS Integers, Sequences, FiniteSets, Bags, TLC

VARIABLES
    target,      \* cfg!(target_env), cfg!(target_arch) of the build
    env,         \* the process environment: variable name -> Option<String>
    cargo_toml,  \* state of <CARGO_MANIFEST_DIR>/Cargo.toml
    registry,    \* what running `reg query ...` gives
    fs,          \* the file system: path -> file
    res,         \* the WindowsResource value (<<>> before new() returns)
    pc,          \* position of the build script
    result,      \* what compile() returned: <<>>, <<"Ok">> or <<message>>
    stdout,      \* lines written to standard output
    procs,       \* processes run by compile(), in order, with their outcome
    hist         \* history: what the caller has called so far

vars == <<target, env, cargo_toml, registry, fs, res, pc, result, stdout, procs, hist>>

----------------------------------------------------------------------------
(* Option *)

None == <<>>

Some(x) == <<x>>

IsSome(o) == o # <<>>

Unwrap(o) == o[1]

----------------------------------------------------------------------------
(* Strings *)

Whitespace == {" ", "\t", "\n", "\r", "\f"}

Char(s, i) == SubSeq(s, i, i)

RECURSIVE SkipWhile(_, _)
\* the longest suffix of s that does not start with a character of cs
SkipWhile(s, cs) ==
    IF s = "" THEN ""
    ELSE IF Char(s, 1) \in cs THEN SkipWhile(SubSeq(s, 2, Len(s)), cs)
    ELSE s

RECURSIVE DropTrailing(_, _)
DropTrailing(s, cs) ==
    IF s = "" THEN ""
    ELSE IF Char(s, Len(s)) \in cs THEN DropTrailing(SubSeq(s, 1, Len(s) - 1), cs)
    ELSE s

\* str::trim
Trim(s) == DropTrailing(SkipWhile(s, Whitespace), Whitespace)

\* str::starts_with
StartsWith(s, p) == Len(s) >= Len(p) /\ SubSeq(s, 1, Len(p)) = p

\* str::ends_with
EndsWith(s, p) == Len(s) >= Len(p) /\ SubSeq(s, Len(s) - Len(p) + 1, Len(s)) = p

\* str::find: Some(0-based index of the first occurrence) or None
Find(s, p) ==
    LET hits == {i \in 1..(Len(s) - Len(p) + 1) : SubSeq(s, i, i + Len(p) - 1) = p}
    IN  IF hits = {} THEN None
        ELSE Some((CHOOSE i \in hits : \A j \in hits : i <= j) - 1)

RECURSIVE Replace(_, _, _)
\* str::replace with a one-character pattern
Replace(s, c, by) ==
    LET at == Find(s, c)
    IN  IF ~IsSome(at) THEN s
        ELSE SubSeq(s, 1, Unwrap(at)) \o by \o Replace(SubSeq(s, Unwrap(at) + 2, Len(s)), c, by)

RECURSIVE Lines(_)
\* str::lines: split at "\n" (a "\r" before it dropped), no empty last line
Lines(s) ==
    LET at == Find(s, "\n")
        first == SubSeq(s, 1, Unwrap(at))
    IN  IF s = "" THEN <<>>
        ELSE IF ~IsSome(at) THEN <<s>>
        ELSE <<(IF EndsWith(first, "\r") THEN SubSeq(first, 1, Len(first) - 1) ELSE first)>>
             \o Lines(SubSeq(s, Unwrap(at) + 2, Len(s)))

----------------------------------------------------------------------------
(* Paths (std::path on Windows) *)

Separators == {"\\", "/"}

\* PathBuf::join / PathBuf::push with a relative component
Join(base, rel) ==
    IF base = "" THEN rel
    ELSE IF Char(base, Len(base)) \in Separators THEN base \o rel
    ELSE base \o "\\" \o rel

----------------------------------------------------------------------------
(* Integers of fixed width *)

WordBits == 16

WordMod == 2 ^ WordBits

Limbs == 1..4

Zero64 == <<0, 0, 0, 0>>

\* a u64 whose value is the 16-bit word w
FromU16(w) == <<w, 0, 0, 0>>

RECURSIVE Or16(_, _)
\* bitwise or of two 16-bit words
Or16(a, b) ==
    IF a = 0 THEN b
    ELSE IF b = 0 THEN a
    ELSE (IF a % 2 = 1 \/ b % 2 = 1 THEN 1 ELSE 0) + 2 * Or16(a \div 2, b \div 2)

\* u64 | u64
BitOr(v, w) == [i \in Limbs |-> Or16(v[i], w[i])]

\* u64 << n, n a multiple of 16 below 64; the bits shifted out are lost
Shl(v, n) ==
    LET k == n \div WordBits
    IN  [i \in Limbs |-> IF i - k >= 1 THEN v[i - k] ELSE 0]

\* u64 >> n, n a multiple of 16 below 64
Shr(v, n) ==
    LET k == n \div WordBits
    IN  [i \in Limbs |-> IF i + k <= 4 THEN v[i + k] ELSE 0]

\* (v as u16): the low 16 bits
AsU16(v) == v[1]

IsZero64(v) == \A i \in Limbs : v[i] = 0

----------------------------------------------------------------------------
(* Formatting and parsing numbers *)

Digits == <<"0", "1", "2", "3", "4", "5", "6", "7", "8", "9",
            "a", "b", "c", "d", "e", "f">>

RECURSIVE FmtNat(_, _)
\* n in base b, no leading zeros
FmtNat(n, b) ==
    IF n < b THEN Digits[n + 1]
    ELSE FmtNat(n \div b, b) \o Digits[(n % b) + 1]

RECURSIVE PadLeft(_, _, _)
PadLeft(s, width, c) == IF Len(s) >= width THEN s ELSE PadLeft(c \o s, width, c)

\* "{}" of a u16
FmtDec16(n) == FmtNat(n, 10)

\* "{:#x}" of a u16
FmtHex16(n) == "0x" \o FmtNat(n, 16)

\* "{:04x}" of a u16
FmtHex16Pad4(n) == PadLeft(FmtNat(n, 16), 4, "0")

\* "{:#x}" of a u64
FmtHex64(v) ==
    IF IsZero64(v) THEN "0x0"
    ELSE LET top == CHOOSE i \in Limbs : v[i] # 0 /\ \A j \in Limbs : j > i => v[j] = 0
             rest[i \in 0..4] ==
                 \* the limbs below `top`, most significant first, four digits each
                 IF i = 0 THEN ""
                 ELSE rest[i - 1] \o
                      (IF top - i >= 1 THEN PadLeft(FmtNat(v[top - i], 16), 4, "0") ELSE "")
         IN  "0x" \o FmtNat(v[top], 16) \o rest[3]

\* v divided by ten: <<quotient (u64), remainder>>
DivMod10(v) ==
    LET r4 == 0
        q4 == (r4 * WordMod + v[4]) \div 10
        r3 == (r4 * WordMod + v[4]) % 10
        q3 == (r3 * WordMod + v[3]) \div 10
        r2 == (r3 * WordMod + v[3]) % 10
        q2 == (r2 * WordMod + v[2]) \div 10
        r1 == (r2 * WordMod + v[2]) % 10
        q1 == (r1 * WordMod + v[1]) \div 10
        r0 == (r1 * WordMod + v[1]) % 10
    IN  <<(<<q1, q2, q3, q4>>), r0>>

RECURSIVE FmtDec64(_)
\* "{}" of a u64
FmtDec64(v) ==
    LET qr == DivMod10(v)
    IN  IF IsZero64(qr[1]) THEN Digits[qr[2] + 1]
        ELSE FmtDec64(qr[1]) \o Digits[qr[2] + 1]

\* v * 10 + d as a u64, or None on overflow
MulAdd10(v, d) ==
    LET t1 == v[1] * 10 + d
        t2 == v[2] * 10 + (t1 \div WordMod)
        t3 == v[3] * 10 + (t2 \div WordMod)
        t4 == v[4] * 10 + (t3 \div WordMod)
    IN  IF t4 >= WordMod THEN None
        ELSE Some(<<t1 % WordMod, t2 % WordMod, t3 % WordMod, t4>>)

DecimalDigit(c) ==
    IF \E d \in 1..10 : Digits[d] = c
    THEN Some((CHOOSE d \in 1..10 : Digits[d] = c) - 1)
    ELSE None

RECURSIVE ParseDigits(_, _)
ParseDigits(s, acc) ==
    IF s = "" THEN Some(acc)
    ELSE LET d == DecimalDigit(Char(s, 1))
         IN  IF ~IsSome(d) THEN None
             ELSE LET nxt == MulAdd10(acc, Unwrap(d))
                  IN  IF ~IsSome(nxt) THEN None
                      ELSE ParseDigits(SubSeq(s, 2, Len(s)), Unwrap(nxt))

\* str::parse::<u64>: an optional "+", then one or more decimal digits, no overflow
ParseU64(s) ==
    LET body == IF s # "" /\ Char(s, 1) = "+" THEN SubSeq(s, 2, Len(s)) ELSE s
    IN  IF body = "" THEN None ELSE ParseDigits(body, Zero64)

\* Result::unwrap_or / Option::unwrap_or
UnwrapOr(o, dflt) == IF IsSome(o) THEN Unwrap(o) ELSE dflt

----------------------------------------------------------------------------
(* HashMap *)

\* HashMap::insert
Insert(m, k, v) == [x \in (DOMAIN m) \cup {k} |-> IF x = k THEN v ELSE m[x]]

EmptyMap == [x \in {} |-> ""]

----------------------------------------------------------------------------
(* The package manifest, read through the toml crate *)

TomlString(s) == [type |-> "String", str |-> s]

TomlInteger(n) == [type |-> "Integer", int |-> n]

\* a table is the sequence of its entries, in key order (toml::Table is a BTreeMap)
TomlTable(entries) == [type |-> "Table", table |-> entries]

Entry(k, v) == [key |-> k, val |-> v]

\* BTreeMap::get
TableGet(entries, k) ==
    IF \E i \in 1..Len(entries) : entries[i].key = k
    THEN Some(entries[CHOOSE i \in 1..Len(entries) : entries[i].key = k].val)
    ELSE None

\* toml::Value::as_table
AsTable(v) == IF v.type = "Table" THEN Some(v.table) ELSE None

\* toml::Value::as_str
AsStr(v) == IF v.type = "String" THEN Some(v.str) ELSE None

RECURSIVE Lookup(_, _)
\* toml::Value::lookup on a dotted path, given as the sequence of its keys
Lookup(v, path) ==
    IF path = <<>> THEN Some(v)
    ELSE IF v.type # "Table" THEN None
    ELSE LET nxt == TableGet(v.table, Head(path))
         IN  IF IsSome(nxt) THEN Lookup(Unwrap(nxt), Tail(path)) ELSE None

RECURSIVE OverlayEntriesKeepsSeeded(_, _)
\* the loop inserting only the keys the map does not hold yet
OverlayEntriesKeepsSeeded(entries, props) ==
    IF entries = <<>> THEN [props |-> props, out |-> <<>>]
    ELSE LET e == Head(entries)
             s == AsStr(e.val)
             here == IF IsSome(s)
                     THEN [props |-> IF e.key \in DOMAIN props THEN props
                                     ELSE Insert(props, e.key, Unwrap(s)),
                           out |-> <<>>]
                     ELSE [props |-> props,
                           out |-> <<"package.metadata.winres." \o e.key \o " is not a string">>]
             rest == OverlayEntriesKeepsSeeded(Tail(entries), here.props)
         IN  [props |-> rest.props, out |-> here.out \o rest.out]

RECURSIVE OverlayEntries(_, _)
\* the loop of parse_cargo_toml over package.metadata.winres:
\* [props: the map after the loop, out: the lines printed]
OverlayEntries(entries, props) ==
    IF entries = <<>> THEN [props |-> props, out |-> <<>>]
    ELSE LET e == Head(entries)
             s == AsStr(e.val)
             here == IF IsSome(s)
                     THEN [props |-> Insert(props, e.key, Unwrap(s)), out |-> <<>>]
                     ELSE [props |-> props,
                           out |-> <<"package.metadata.winres." \o e.key \o " is not a string">>]
             rest == OverlayEntries(Tail(entries), here.props)
         IN  [props |-> rest.props, out |-> here.out \o rest.out]

\* parse_cargo_toml(props): status "ok" (Ok(())), "err" (an io::Error) or
\* "panic" (CARGO_MANIFEST_DIR unset), the map as left, and the lines printed
ParseCargoToml(props) ==
    IF ~IsSome(env["CARGO_MANIFEST_DIR"])
    THEN [status |-> "panic", props |-> props, out |-> <<>>]
    ELSE IF cargo_toml.kind = "absent"          \* fs::File::open fails
    THEN [status |-> "err", props |-> props, out |-> <<>>]
    ELSE IF cargo_toml.kind = "unreadable"      \* read_to_string fails
    THEN [status |-> "err", props |-> props, out |-> <<>>]
    ELSE IF ~IsSome(cargo_toml.parse)           \* toml::Parser::parse gives None
    THEN [status |-> "ok", props |-> props, out |-> <<"parsing error">>]
    ELSE LET ml == Unwrap(cargo_toml.parse)
             pkg == TableGet(ml, "package")
         IN  IF ~IsSome(pkg)
             THEN [status |-> "ok", props |-> props, out |-> <<"package section missing">>]
             ELSE LET winres == Lookup(Unwrap(pkg), <<"metadata", "winres">>)
                  IN  IF ~IsSome(winres)
                      THEN [status |-> "ok", props |-> props,
                            out |-> <<"package.metadata.winres does not exist">>]
                      ELSE LET tbl == AsTable(Unwrap(winres))
                           IN  IF ~IsSome(tbl)
                               THEN [status |-> "ok", props |-> props,
                                     out |-> <<"package.metadata.winres is not a table">>]
                               ELSE LET o == OverlayEntries(Unwrap(tbl), props)
                                    IN  [status |-> "ok", props |-> o.props, out |-> o.out]

----------------------------------------------------------------------------
(* The SDK locator *)

RcExeRelative ==
    IF target.arch = "x86_64" THEN "bin\\10.0.15063.0\\x64\\rc.exe"
    ELSE "bin\\10.0.15063.0\\x86\\rc.exe"

\* Path::exists
Exists(path) == path \in DOMAIN fs

RECURSIVE ScanKits(_)
\* the loop of get_sdk over the lines of the registry tool's output:
\* [panic, kits: the vector built, out: the lines printed]
ScanKits(lines) ==
    IF lines = <<>> THEN [panic |-> FALSE, kits |-> <<>>, out |-> <<>>]
    ELSE LET line == Head(lines)
             at == Find(line, "REG_SZ")
         IN  IF ~StartsWith(Trim(line), "KitsRoot") THEN ScanKits(Tail(lines))
             ELSE IF ~IsSome(at) THEN [panic |-> TRUE, kits |-> <<>>, out |-> <<>>]
             ELSE LET kit == SkipWhile(SubSeq(line, Unwrap(at) + 6 + 1, Len(line)), Whitespace)
                      rest == ScanKits(Tail(lines))
                  IN  IF Exists(Join(kit, RcExeRelative))
                      THEN [panic |-> rest.panic,
                            kits |-> <<kit>> \o rest.kits,
                            out |-> <<kit>> \o rest.out]
                      ELSE rest

\* get_sdk(): status "ok" (Ok(kits)), "err" or "panic", and the lines printed
GetSdk ==
    IF ~registry.spawned THEN [status |-> "err", kits |-> <<>>, out |-> <<>>]
    ELSE IF ~registry.utf8 THEN [status |-> "err", kits |-> <<>>, out |-> <<>>]
    ELSE LET scan == ScanKits(Lines(registry.stdout))
         IN  [status |-> IF scan.panic THEN "panic" ELSE "ok",
              kits |-> scan.kits, out |-> scan.out]

----------------------------------------------------------------------------
(* WindowsResource::new *)

VersionFields ==
    {"FILEVERSION", "PRODUCTVERSION", "FILEOS", "FILETYPE", "FILESUBTYPE",
     "FILEFLAGSMASK", "FILEFLAGS"}

\* env::var(name).unwrap().parse().unwrap_or(0), the variable being set
Component(name) == UnwrapOr(ParseU64(Unwrap(env[name])), Zero64)

\* the packed version of lines 173-176
PackedVersion ==
    LET v0 == Zero64
        v1 == BitOr(v0, Shl(Component("CARGO_PKG_VERSION_MAJOR"), 48))
        v2 == BitOr(v1, Shl(Component("CARGO_PKG_VERSION_MINOR"), 32))
        v3 == BitOr(v2, Shl(Component("CARGO_PKG_VERSION_PATCH"), 16))
    IN  v3

\* the properties seeded from the environment (lines 162-169)
SeededProps ==
    LET p1 == Insert(EmptyMap, "FileVersion", Unwrap(env["CARGO_PKG_VERSION"]))
        p2 == Insert(p1, "ProductVersion", Unwrap(env["CARGO_PKG_VERSION"]))
        p3 == Insert(p2, "ProductName", Unwrap(env["CARGO_PKG_NAME"]))
        p4 == Insert(p3, "FileDescription", Unwrap(env["CARGO_PKG_DESCRIPTION"]))
    IN  p4

DefaultVersionInfo ==
    [f \in VersionFields |->
        CASE f = "FILEVERSION" -> PackedVersion
          [] f = "PRODUCTVERSION" -> PackedVersion
          [] f = "FILEOS" -> <<4, 4, 0, 0>>          \* 0x00040004
          [] f = "FILETYPE" -> FromU16(1)
          [] f = "FILESUBTYPE" -> FromU16(0)
          [] f = "FILEFLAGSMASK" -> FromU16(63)      \* 0x3F
          [] f = "FILEFLAGS" -> FromU16(0)]

\* the match on get_sdk() of lines 186-189: the default toolkit path, or a panic
DefaultToolkitPath(sdk) ==
    IF sdk.status = "ok"
    THEN IF sdk.kits = <<>> THEN [panic |-> TRUE, path |-> ""]       \* v.pop().unwrap()
         ELSE [panic |-> FALSE, path |-> sdk.kits[Len(sdk.kits)]]
    ELSE IF sdk.status = "err" THEN [panic |-> FALSE, path |-> ""]
    ELSE [panic |-> TRUE, path |-> ""]

\* new(), statement by statement: whether it panics, the lines it printed
\* before returning or panicking, and the value it returns
NewOutcome ==
    LET Panic(out) == [panic |-> TRUE, out |-> out, value |-> None]
    IN  IF \E n \in {"CARGO_PKG_VERSION", "CARGO_PKG_NAME", "CARGO_PKG_DESCRIPTION"} :
               ~IsSome(env[n])
        THEN Panic(<<>>)
        ELSE LET toml == ParseCargoToml(SeededProps)
             IN  IF toml.status # "ok" THEN Panic(toml.out)
                 ELSE IF \E n \in {"CARGO_PKG_VERSION_MAJOR", "CARGO_PKG_VERSION_MINOR",
                                   "CARGO_PKG_VERSION_PATCH"} : ~IsSome(env[n])
                 THEN Panic(toml.out)
                 ELSE LET sdk == GetSdk
                          tk == DefaultToolkitPath(sdk)
                      IN  IF tk.panic THEN Panic(toml.out \o sdk.out)
                          ELSE [panic |-> FALSE,
                                out |-> toml.out \o sdk.out,
                                value |-> Some(
                                   [toolkit_path |-> tk.path,
                                    properties |-> toml.props,
                                    version_info |-> DefaultVersionInfo,
                                    rc_file |-> None,
                                    icon |-> None,
                                    language |-> 0,
                                    manifest |-> None,
                                    manifest_file |-> None,
                                    output_directory |-> UnwrapOr(env["OUT_DIR"], ".")])]

\* nothing called yet.  calls: the number of setter calls; manifest_call: the
\* last call of set_manifest / set_manifest_file, its argument and the one
\* before it; set_last: the last value passed to set() for each name; quad:
\* for each version field last set to a packed value, the four words packed
NoHistory ==
    [calls |-> 0, manifest_call |-> None, set_last |-> EmptyMap,
     quad |-> [f \in {} |-> <<>>]]

\* the build script calls WindowsResource::new() and it returns
New ==
    /\ pc = "start"
    /\ ~NewOutcome.panic
    /\ res' = Unwrap(NewOutcome.value)
    /\ stdout' = stdout \o NewOutcome.out
    /\ pc' = "ready"
    /\ UNCHANGED <<target, env, cargo_toml, registry, fs, result, procs, hist>>

\* the build script calls WindowsResource::new() and it panics
NewPanics ==
    /\ pc = "start"
    /\ NewOutcome.panic
    /\ stdout' = stdout \o NewOutcome.out
    /\ pc' = "panicked"
    /\ UNCHANGED <<target, env, cargo_toml, registry, fs, res, result, procs, hist>>

----------------------------------------------------------------------------
(* The setters *)

MaxCalls == 2

CanCall == pc = "ready" /\ hist.calls < MaxCalls

Called == [hist EXCEPT !.calls = @ + 1]

LastManifestOp ==
    IF IsSome(hist.manifest_call) THEN Unwrap(hist.manifest_call).op ELSE "none"

Set(name, value) ==
    /\ CanCall
    /\ res' = [res EXCEPT !.properties = Insert(@, name, value)]
    /\ hist' = [Called EXCEPT !.set_last = Insert(@, name, value)]
    /\ UNCHANGED <<target, env, cargo_toml, registry, fs, pc, result, stdout, procs>>

SetToolkitPath(path) ==
    /\ CanCall
    /\ res' = [res EXCEPT !.toolkit_path = path]
    /\ hist' = Called
    /\ UNCHANGED <<target, env, cargo_toml, registry, fs, pc, result, stdout, procs>>

SetLanguage(language) ==
    /\ CanCall
    /\ res' = [res EXCEPT !.language = language]
    /\ hist' = Called
    /\ UNCHANGED <<target, env, cargo_toml, registry, fs, pc, result, stdout, procs>>

SetIcon(path) ==
    /\ CanCall
    /\ res' = [res EXCEPT !.icon = Some(path)]
    /\ hist' = Called
    /\ UNCHANGED <<target, env, cargo_toml, registry, fs, pc, result, stdout, procs>>

\* an insert that leaves the named field as the only key
SetVersionInfoOnlyField(field, value) ==
    /\ CanCall
    /\ res' = [res EXCEPT !.version_info = [f \in {field} |-> value]]
    /\ hist' = [Called EXCEPT !.quad = [f \in (DOMAIN @) \ {field} |-> @[f]]]
    /\ UNCHANGED <<target, env, cargo_toml, registry, fs, pc, result, stdout, procs>>

SetVersionInfo(field, value) ==
    /\ CanCall
    /\ res' = [res EXCEPT !.version_info = Insert(@, field, value)]
    /\ hist' = [Called EXCEPT !.quad = [f \in (DOMAIN @) \ {field} |-> @[f]]]
    /\ UNCHANGED <<target, env, cargo_toml, registry, fs, pc, result, stdout, procs>>

\* the documented way to build a version value (lines 73-74):
\* MAJOR << 48 | MINOR << 32 | PATCH << 16 | RELEASE
Pack(a, b, c, d) ==
    BitOr(BitOr(BitOr(Shl(FromU16(a), 48), Shl(FromU16(b), 32)), Shl(FromU16(c), 16)),
          FromU16(d))

\* the caller packs four words and passes them to set_version_info
PackAndSet(field, a, b, c, d) ==
    /\ CanCall
    /\ res' = [res EXCEPT !.version_info = Insert(@, field, Pack(a, b, c, d))]
    /\ hist' = [Called EXCEPT !.quad = Insert(@, field, <<a, b, c, d>>)]
    /\ UNCHANGED <<target, env, cargo_toml, registry, fs, pc, result, stdout, procs>>

SetManifest(manifest) ==
    /\ CanCall
    /\ res' = [res EXCEPT !.manifest_file = None, !.manifest = Some(manifest)]
    /\ hist' = [Called EXCEPT !.manifest_call =
                   Some([op |-> "set_manifest", arg |-> manifest, after |-> LastManifestOp])]
    /\ UNCHANGED <<target, env, cargo_toml, registry, fs, pc, result, stdout, procs>>

\* set_manifest_file without line 348
SetManifestFileKeepsInline(file) ==
    /\ CanCall
    /\ res' = [res EXCEPT !.manifest_file = Some(file)]
    /\ hist' = [Called EXCEPT !.manifest_call =
                   Some([op |-> "set_manifest_file", arg |-> file, after |-> LastManifestOp])]
    /\ UNCHANGED <<target, env, cargo_toml, registry, fs, pc, result, stdout, procs>>

SetManifestFile(file) ==
    /\ CanCall
    /\ res' = [res EXCEPT !.manifest_file = Some(file), !.manifest = None]
    /\ hist' = [Called EXCEPT !.manifest_call =
                   Some([op |-> "set_manifest_file", arg |-> file, after |-> LastManifestOp])]
    /\ UNCHANGED <<target, env, cargo_toml, registry, fs, pc, result, stdout, procs>>

SetResourceFile(path) ==
    /\ CanCall
    /\ res' = [res EXCEPT !.rc_file = Some(path)]
    /\ hist' = Called
    /\ UNCHANGED <<target, env, cargo_toml, registry, fs, pc, result, stdout, procs>>

SetOutputDirectory(path) ==
    /\ CanCall
    /\ res' = [res EXCEPT !.output_directory = path]
    /\ hist' = Called
    /\ UNCHANGED <<target, env, cargo_toml, registry, fs, pc, result, stdout, procs>>

----------------------------------------------------------------------------
(* WindowsResource::write_resource_file *)

\* the lines written while iterating a map, given as key -> line: a bag, one
\* line per key
LinesBag(line) ==
    [l \in {line[k] : k \in DOMAIN line} |-> Cardinality({k \in DOMAIN line : line[k] = l})]

\* the version line with the last word taken from the wrong shift
VersionLineWrongShift(k, v) ==
    IF k \in {"FILEVERSION", "PRODUCTVERSION"}
    THEN k \o " " \o FmtDec16(AsU16(Shr(v, 48))) \o ", " \o FmtDec16(AsU16(Shr(v, 32)))
           \o ", " \o FmtDec16(AsU16(Shr(v, 16))) \o ", " \o FmtDec16(AsU16(Shr(v, 16)))
    ELSE k \o " " \o FmtHex64(v)

\* one iteration of the loop over version_info (lines 362-376)
VersionLine(k, v) ==
    IF k \in {"FILEVERSION", "PRODUCTVERSION"}
    THEN k \o " " \o FmtDec16(AsU16(Shr(v, 48))) \o ", " \o FmtDec16(AsU16(Shr(v, 32)))
           \o ", " \o FmtDec16(AsU16(Shr(v, 16))) \o ", " \o FmtDec16(AsU16(v))
    ELSE k \o " " \o FmtHex64(v)

\* the line written for a property (line 381)
ValueLine(k, v) == "VALUE \"" \o k \o "\", \"" \o v \o "\""

\* the loop without the test of line 380
EmittedKeysAll(props) == DOMAIN props

\* the properties the loop of lines 379-383 writes a line for
EmittedKeys(props) == {k \in DOMAIN props : props[k] # ""}

\* the manifest line with its quotes left as they are
ManifestLineNoDoubling(line) == "\"" \o Trim(line) \o "\""

\* one line of an inline manifest (line 397)
ManifestLine(line) == "\"" \o Trim(Replace(line, "\"", "\"\"")) \o "\""

\* lines 392-403
ManifestSection(r) ==
    IF "FILETYPE" \notin DOMAIN r.version_info THEN <<>>
    ELSE LET e == FmtDec64(r.version_info["FILETYPE"])
             src == IF IsSome(r.manifest) THEN Lines(Unwrap(r.manifest)) ELSE <<>>
         IN  IF IsSome(r.manifest)
             THEN <<e \o " 24", "{">> \o [i \in 1..Len(src) |-> ManifestLine(src[i])] \o <<"}">>
             ELSE IF IsSome(r.manifest_file)
             THEN <<e \o " 24 \"" \o Unwrap(r.manifest_file) \o "\"">>
             ELSE <<>>

\* the text written for r, section by section in the order written
Script(r) ==
    [head |-> <<"#pragma code_page(65001)", "1 VERSIONINFO">>,
     version |-> LinesBag([k \in DOMAIN r.version_info |-> VersionLine(k, r.version_info[k])]),
     strings |-> <<"{", "BLOCK \"StringFileInfo\"",
                   "{", "BLOCK \"" \o FmtHex16Pad4(r.language) \o "04b0\"", "{">>,
     values |-> LinesBag([k \in EmittedKeys(r.properties) |-> ValueLine(k, r.properties[k])]),
     var |-> <<"}", "}",
               "BLOCK \"VarFileInfo\" {",
               "VALUE \"Translation\", " \o FmtHex16(r.language) \o ", 0x04b0",
               "}", "}">>,
     icon |-> IF IsSome(r.icon) THEN <<"1 ICON \"" \o Unwrap(r.icon) \o "\"">> ELSE <<>>,
     manifest |-> ManifestSection(r)]

SectionOrder == <<"head", "version", "strings", "values", "var", "icon", "manifest">>

\* what is in the file when a write fails: the sections written before it
Truncated(script, n) ==
    [f \in DOMAIN script |->
        IF \E i \in 1..n : SectionOrder[i] = f THEN script[f]
        ELSE IF f \in {"version", "values"} THEN EmptyBag ELSE <<>>]

\* where a write is taken to fail: before the first line, in the middle, in
\* the last section
WriteFailPoints == {0, 3, Len(SectionOrder) - 1}

\* write_resource_file(path) with the outcome the file system gives:
\* "ok", "create_failed" (fs::File::create) or <<"write_failed", n>>.
\* [ok, fs]; the file is closed when the function returns, on every path
WriteResourceFile(r, path, outcome, files) ==
    IF outcome = <<"create_failed">> THEN [ok |-> FALSE, fs |-> files]
    ELSE IF outcome = <<"ok">>
    THEN [ok |-> TRUE,
          fs |-> Insert(files, path,
                        [kind |-> "rc", script |-> Script(r), complete |-> TRUE, open |-> FALSE])]
    ELSE [ok |-> FALSE,
          fs |-> Insert(files, path,
                        [kind |-> "rc", script |-> Truncated(Script(r), outcome[2]),
                         complete |-> FALSE, open |-> FALSE])]

WriteOutcomes ==
    {<<"ok">>, <<"create_failed">>} \cup {<<"write_failed", n>> : n \in WriteFailPoints}

----------------------------------------------------------------------------
(* WindowsResource::compile and compile_with_toolkit *)

\* the generated script's path (lines 468-469)
GeneratedRc(r) == Join(r.output_directory, "resource.rc")

\* the input taken to be the generated script whatever rc_file holds
CompileInputGenerated(r) == GeneratedRc(r)

\* the input handed to compile_with_toolkit (lines 473-478)
CompileInput(r) == IF IsSome(r.rc_file) THEN Unwrap(r.rc_file) ELSE GeneratedRc(r)

Ok == Some("Ok")

Err(msg) == Some(msg)

ObjectFile == [kind |-> "object"]

\* compile(), up to the call of compile_with_toolkit, the script being written
CompileWrites(outcome) ==
    /\ pc = "ready"
    /\ ~IsSome(res.rc_file)
    /\ LET w == WriteResourceFile(res, GeneratedRc(res), outcome, fs)
       IN  /\ fs' = w.fs
           /\ pc' = IF w.ok THEN "run_compiler" ELSE "returned"
           /\ result' = IF w.ok THEN None ELSE Err("io error")
    /\ UNCHANGED <<target, env, cargo_toml, registry, res, stdout, procs, hist>>

\* compile(), up to the call of compile_with_toolkit, with an rc_file override
CompileWithOverride ==
    /\ pc = "ready"
    /\ IsSome(res.rc_file)
    /\ pc' = "run_compiler"
    /\ UNCHANGED <<target, env, cargo_toml, registry, fs, res, result, stdout, procs, hist>>

ProcessOutcomes == {"spawn_failed", "exit_nonzero", "exit_zero"}

\* the resource compiler's command line
CompilerCommand(r, input, output_dir) ==
    IF target.env = "gnu"
    THEN [program |-> "windres.exe",
          cwd |-> Some(r.toolkit_path),
          args |-> <<"-I" \o Unwrap(env["CARGO_MANIFEST_DIR"]),
                     input,
                     Join(output_dir, "resource.o")>>]
    ELSE [program |-> Join(r.toolkit_path, RcExeRelative),
          cwd |-> None,
          args |-> <<"/I" \o Unwrap(env["CARGO_MANIFEST_DIR"]),
                     "/nologo",
                     "/fo" \o Join(output_dir, "resource.lib"),
                     input>>]

CompilerOutput(output_dir) ==
    IF target.env = "gnu" THEN Join(output_dir, "resource.o")
    ELSE Join(output_dir, "resource.lib")

\* the archiver's command line (gnu)
ArchiverCommand(r, output_dir) ==
    [program |-> "ar.exe",
     cwd |-> Some(r.toolkit_path),
     args |-> <<"rsc", Join(output_dir, "libresource.a"), Join(output_dir, "resource.o")>>]

\* the two println! that end compile_with_toolkit
LinkDirectives(output_dir) ==
    <<"cargo:rustc-link-search=native=" \o output_dir,
      IF target.env = "gnu" THEN "cargo:rustc-link-lib=static=resource"
      ELSE "cargo:rustc-link-lib=dylib=resource">>

\* a process that was run, with how it ended
Ran(cmd, outcome) == cmd @@ [outcome |-> outcome]

\* compile_with_toolkit without the check of the compiler's exit status
RunCompilerIgnoresStatus(outcome) ==
    /\ pc = "run_compiler"
    /\ procs' = Append(procs,
                       Ran(CompilerCommand(res, CompileInput(res), res.output_directory), outcome))
    /\ IF outcome = "spawn_failed"
       THEN /\ pc' = "returned"
            /\ result' = Err("io error")
            /\ UNCHANGED <<fs, stdout>>
       ELSE /\ fs' = IF outcome = "exit_zero"
                     THEN Insert(fs, CompilerOutput(res.output_directory), ObjectFile)
                     ELSE fs
            /\ IF target.env = "gnu"
               THEN /\ pc' = "run_archiver"
                    /\ UNCHANGED <<result, stdout>>
               ELSE /\ stdout' = stdout \o LinkDirectives(res.output_directory)
                    /\ pc' = "returned"
                    /\ result' = Ok
    /\ UNCHANGED <<target, env, cargo_toml, registry, res, hist>>

\* compile_with_toolkit: the resource compiler runs, with the outcome the
\* system gives; for msvc the function then prints and returns
RunCompiler(outcome) ==
    /\ pc = "run_compiler"
    /\ procs' = Append(procs,
                       Ran(CompilerCommand(res, CompileInput(res), res.output_directory), outcome))
    /\ IF outcome = "spawn_failed"
       THEN /\ pc' = "returned"
            /\ result' = Err("io error")
            /\ UNCHANGED <<fs, stdout>>
       ELSE IF outcome = "exit_nonzero"
       THEN /\ pc' = "returned"
            /\ result' = Err("Could not compile resource file")
            /\ UNCHANGED <<fs, stdout>>
       ELSE /\ fs' = Insert(fs, CompilerOutput(res.output_directory), ObjectFile)
            /\ IF target.env = "gnu"
               THEN /\ pc' = "run_archiver"
                    /\ UNCHANGED <<result, stdout>>
               ELSE /\ stdout' = stdout \o LinkDirectives(res.output_directory)
                    /\ pc' = "returned"
                    /\ result' = Ok
    /\ UNCHANGED <<target, env, cargo_toml, registry, res, hist>>

\* compile_with_toolkit (gnu): the archiver runs, then the function prints and returns
RunArchiver(outcome) ==
    /\ pc = "run_archiver"
    /\ procs' = Append(procs, Ran(ArchiverCommand(res, res.output_directory), outcome))
    /\ IF outcome = "spawn_failed"
       THEN /\ pc' = "returned"
            /\ result' = Err("io error")
            /\ UNCHANGED <<fs, stdout>>
       ELSE IF outcome = "exit_nonzero"
       THEN /\ pc' = "returned"
            /\ result' = Err("Could not create static library for resource file")
            /\ UNCHANGED <<fs, stdout>>
       ELSE /\ fs' = Insert(fs, Join(res.output_directory, "libresource.a"), ObjectFile)
            /\ stdout' = stdout \o LinkDirectives(res.output_directory)
            /\ pc' = "returned"
            /\ result' = Ok
    /\ UNCHANGED <<target, env, cargo_toml, registry, res, hist>>

----------------------------------------------------------------------------
(* The build's surroundings *)

Targets == [env : {"msvc", "gnu"}, arch : {"x86_64", "x86"}]

EnvVars ==
    {"CARGO_PKG_VERSION", "CARGO_PKG_NAME", "CARGO_PKG_DESCRIPTION",
     "CARGO_PKG_VERSION_MAJOR", "CARGO_PKG_VERSION_MINOR", "CARGO_PKG_VERSION_PATCH",
     "CARGO_MANIFEST_DIR", "OUT_DIR"}

\* what cargo sets for package demo 1.2.3
BaseEnv ==
    [n \in EnvVars |->
        CASE n = "CARGO_PKG_VERSION" -> Some("1.2.3")
          [] n = "CARGO_PKG_NAME" -> Some("demo")
          [] n = "CARGO_PKG_DESCRIPTION" -> Some("A demo")
          [] n = "CARGO_PKG_VERSION_MAJOR" -> Some("1")
          [] n = "CARGO_PKG_VERSION_MINOR" -> Some("2")
          [] n = "CARGO_PKG_VERSION_PATCH" -> Some("3")
          [] n = "CARGO_MANIFEST_DIR" -> Some("C:\\p")
          [] n = "OUT_DIR" -> Some("C:\\out")]

\* what a variable may hold instead: unset, a version component that is
\* not a number, one that is not 16-bit
Deviations(n) ==
    {None}
    \cup (IF n = "CARGO_PKG_VERSION_MAJOR" THEN {Some("x")} ELSE {})
    \cup (IF n = "CARGO_PKG_VERSION_PATCH" THEN {Some("65536")} ELSE {})

Deviating(e) == UNION {{[e EXCEPT ![n] = d] : d \in Deviations(n)} : n \in EnvVars}

\* cargo's environment, and every environment that deviates from it in one
\* or two variables
Envs == {BaseEnv} \cup Deviating(BaseEnv) \cup UNION {Deviating(e) : e \in Deviating(BaseEnv)}

\* the files on disk before the build script runs
InitialFs ==
    [p \in {"C:\\Kits\\10\\bin\\10.0.15063.0\\x64\\rc.exe",
            "C:\\Kits\\10\\bin\\10.0.15063.0\\x86\\rc.exe",
            "D:\\Kits\\10\\bin\\10.0.15063.0\\x64\\rc.exe",
            "D:\\Kits\\10\\bin\\10.0.15063.0\\x86\\rc.exe",
            "C:\\p\\my.rc"} |-> [kind |-> "other"]]

RegHeader == "HKLM\\SOFTWARE\\Microsoft\\Windows Kits\\Installed Roots\r\n"

\* the registry tool cannot be run
RegUnavailable == [spawned |-> FALSE, utf8 |-> TRUE, stdout |-> ""]

\* its output is not UTF-8
RegNotUtf8 == [spawned |-> TRUE, utf8 |-> FALSE, stdout |-> ""]

\* the key does not exist: nothing on standard output
RegNoKey == [spawned |-> TRUE, utf8 |-> TRUE, stdout |-> ""]

\* one kit is listed, without the resource compiler this version looks for
RegStaleKit ==
    [spawned |-> TRUE, utf8 |-> TRUE,
     stdout |-> "\r\n" \o RegHeader \o "    KitsRoot81    REG_SZ    C:\\Kits\\8.1\\\r\n\r\n"]

RegOneKit ==
    [spawned |-> TRUE, utf8 |-> TRUE,
     stdout |-> "\r\n" \o RegHeader \o "    KitsRoot10    REG_SZ    C:\\Kits\\10\\\r\n\r\n"]

RegTwoKits ==
    [spawned |-> TRUE, utf8 |-> TRUE,
     stdout |-> "\r\n" \o RegHeader
                \o "    KitsRoot81    REG_SZ    C:\\Kits\\8.1\\\r\n"
                \o "    KitsRoot10    REG_SZ    C:\\Kits\\10\\\r\n"
                \o "    KitsRoot10b    REG_SZ    D:\\Kits\\10\\\r\n\r\n"]

\* a KitsRoot value of another type
RegOtherType ==
    [spawned |-> TRUE, utf8 |-> TRUE,
     stdout |-> "\r\n" \o RegHeader \o "    KitsRoot10    REG_EXPAND_SZ    C:\\Kits\\10\\\r\n\r\n"]

Registries ==
    {RegUnavailable, RegNotUtf8, RegNoKey, RegStaleKit, RegOneKit, RegTwoKits, RegOtherType}

PackageWith(entries) ==
    Some(<<Entry("package", TomlTable(<<Entry("name", TomlString("demo"))>> \o entries))>>)

TomlAbsent == [kind |-> "absent", parse |-> None]

TomlUnreadable == [kind |-> "unreadable", parse |-> None]

TomlMalformed == [kind |-> "text", parse |-> None]

TomlNoPackage == [kind |-> "text", parse |-> Some(<<Entry("workspace", TomlTable(<<>>))>>)]

TomlNoWinres == [kind |-> "text", parse |-> PackageWith(<<>>)]

TomlWinresNotTable ==
    [kind |-> "text",
     parse |-> PackageWith(<<Entry("metadata",
                    TomlTable(<<Entry("winres", TomlString("yes"))>>))>>)]

TomlAllStrings ==
    [kind |-> "text",
     parse |-> PackageWith(<<Entry("metadata",
                    TomlTable(<<Entry("winres",
                        TomlTable(<<Entry("LegalCopyright", TomlString("(c) 2016")),
                                    Entry("ProductName", TomlString("Override"))>>))>>))>>)]

TomlMixed ==
    [kind |-> "text",
     parse |-> PackageWith(<<Entry("metadata",
                    TomlTable(<<Entry("winres",
                        TomlTable(<<Entry("Comments", TomlInteger(42)),
                                    Entry("FileDescription", TomlString("")),
                                    Entry("FileVersion", TomlInteger(7)),
                                    Entry("ProductName", TomlString("Override"))>>))>>))>>)]

CargoTomls ==
    {TomlAbsent, TomlUnreadable, TomlMalformed, TomlNoPackage, TomlNoWinres,
     TomlWinresNotTable, TomlAllStrings, TomlMixed}

\* the state when the build script starts
InitWith(T, E, C, R) ==
    /\ target \in T
    /\ env \in E
    /\ cargo_toml \in C
    /\ registry \in R
    /\ fs = InitialFs
    /\ res = None
    /\ pc = "start"
    /\ result = None
    /\ stdout = <<>>
    /\ procs = <<>>
    /\ hist = NoHistory

----------------------------------------------------------------------------
(* Construction alone, in every surrounding *)

InitNew == InitWith(Targets, Envs, CargoTomls, Registries)

NextNew == New \/ NewPanics

SpecNew == InitNew /\ [][NextNew]_vars

----------------------------------------------------------------------------
(* A whole build: new(), setters, compile() *)

PropNames == {"ProductName", "Comments"}

PropValues == {"", "v"}

ToolkitPaths == {"C:\\mingw\\bin"}

Languages == {1033}

IconPaths == {"app.ico"}

FieldChoices == {"FILEVERSION", "FILETYPE"}

ValueChoices == {FromU16(2), <<4, 3, 2, 1>>}

Manifests == {"<a b=\"c\"/>\n", "<x/>", " <a>\n\t<b c=\"d\" e=\"\"/> \r\n</a>"}

ManifestFiles == {"app.manifest", "b.manifest"}

RcFiles == {"C:\\p\\my.rc"}

OutputDirectories == {"."}

BuildTargets == {[env |-> "msvc", arch |-> "x86_64"], [env |-> "gnu", arch |-> "x86"]}

Init ==
    InitWith(BuildTargets, {BaseEnv}, {TomlNoWinres, TomlMixed},
             {RegUnavailable, RegNoKey, RegTwoKits})

Next ==
    \/ New
    \/ NewPanics
    \/ \E name \in PropNames, value \in PropValues : Set(name, value)
    \/ \E path \in ToolkitPaths : SetToolkitPath(path)
    \/ \E language \in Languages : SetLanguage(language)
    \/ \E path \in IconPaths : SetIcon(path)
    \/ \E field \in FieldChoices, value \in ValueChoices : SetVersionInfo(field, value)
    \/ \E manifest \in Manifests : SetManifest(manifest)
    \/ \E file \in ManifestFiles : SetManifestFile(file)
    \/ \E path \in RcFiles : SetResourceFile(path)
    \/ \E path \in OutputDirectories : SetOutputDirectory(path)
    \/ \E outcome \in WriteOutcomes : CompileWrites(outcome)
    \/ CompileWithOverride
    \/ \E outcome \in ProcessOutcomes : RunCompiler(outcome)
    \/ \E outcome \in ProcessOutcomes : RunArchiver(outcome)

Spec == Init /\ [][Next]_vars

----------------------------------------------------------------------------
(* Packed version values: new(), set_version_info of packed words, the script *)

Words == {0, 1, 65535}

InitPack ==
    InitWith({[env |-> "gnu", arch |-> "x86_64"]}, {BaseEnv}, {TomlNoWinres}, {RegUnavailable})

NextPack ==
    \/ New
    \/ \E field \in {"FILEVERSION", "PRODUCTVERSION"}, a \in Words, b \in Words,
          c \in Words, d \in Words : PackAndSet(field, a, b, c, d)
    \/ \E outcome \in {<<"ok">>, <<"create_failed">>} : CompileWrites(outcome)

SpecPack == InitPack /\ [][NextPack]_vars

----------------------------------------------------------------------------
(* Properties *)

Constructed == pc \notin {"start", "panicked"}

InCompile == pc \in {"run_compiler", "run_archiver", "returned"}

\* compile() has written the whole script to its generated path
ScriptWritten ==
    /\ InCompile
    /\ ~IsSome(res.rc_file)
    /\ GeneratedRc(res) \in DOMAIN fs
    /\ fs[GeneratedRc(res)].kind = "rc"
    /\ fs[GeneratedRc(res)].complete

WrittenScript == fs[GeneratedRc(res)].script

IsDirective(line) == StartsWith(line, "cargo:rustc-link-")

DirectivesPrinted == \E i \in 1..Len(stdout) : IsDirective(stdout[i])

\* C1: after new() and any setter calls at most one of manifest and
\* manifest_file is set, and once set_manifest or set_manifest_file has been
\* called, the slot of the most recent such call holds that call's argument
\* and the other slot is empty.
C1_ManifestExclusive ==
    Constructed =>
        /\ ~(IsSome(res.manifest) /\ IsSome(res.manifest_file))
        /\ IsSome(hist.manifest_call) =>
              LET c == Unwrap(hist.manifest_call)
              IN  IF c.op = "set_manifest"
                  THEN res.manifest = Some(c.arg) /\ res.manifest_file = None
                  ELSE res.manifest_file = Some(c.arg) /\ res.manifest = None

\* an inline manifest replaced by a manifest file
C1_Witness ==
    /\ pc = "ready"
    /\ IsSome(hist.manifest_call)
    /\ Unwrap(hist.manifest_call).op = "set_manifest_file"
    /\ Unwrap(hist.manifest_call).after = "set_manifest"
    /\ res.manifest_file = Some("b.manifest")

\* C2: in a compile() run without rc_file override, the script is written
\* and closed before the resource compiler runs, the compiler has exited
\* with success before the archiver runs (gnu), the last tool has exited with
\* success before the link directives are printed, and the first failure is
\* what compile() returns, nothing running and nothing being printed after it.
C2_StepsInOrder ==
    (InCompile /\ ~IsSome(res.rc_file)) =>
        LET n == Len(procs)
            tools == IF target.env = "gnu" THEN 2 ELSE 1
            written == /\ GeneratedRc(res) \in DOMAIN fs
                       /\ fs[GeneratedRc(res)].kind = "rc"
                       /\ fs[GeneratedRc(res)].complete
                       /\ ~fs[GeneratedRc(res)].open
        IN  /\ n <= tools
            /\ n >= 1 => written
            /\ pc # "returned" => written
            /\ \A i \in 1..n : i < n => procs[i].outcome = "exit_zero"
            /\ n >= 1 => procs[1].program # "ar.exe"
            /\ n = 2 => procs[2].program = "ar.exe"
            /\ pc = "run_compiler" => n = 0 /\ result = None
            /\ pc = "run_archiver" => n = 1 /\ procs[1].outcome = "exit_zero" /\ result = None
            /\ DirectivesPrinted =>
                  /\ n = tools
                  /\ procs[n].outcome = "exit_zero"
                  /\ pc = "returned"
                  /\ result = Ok
            /\ pc = "returned" =>
                  /\ IsSome(result)
                  /\ result = Ok <=> DirectivesPrinted
                  /\ (n = 0) => (result = Err("io error") /\ ~written)
                  /\ (n >= 1 /\ procs[n].outcome = "spawn_failed") => result = Err("io error")
                  /\ (n = 1 /\ procs[1].outcome = "exit_nonzero") =>
                        result = Err("Could not compile resource file")
                  /\ (n = 2 /\ procs[2].outcome = "exit_nonzero") =>
                        result = Err("Could not create static library for resource file")
                  /\ (n >= 1 /\ procs[n].outcome = "exit_zero") => (n = tools /\ result = Ok)

\* a gnu build that went through all four steps
C2_Witness ==
    /\ pc = "returned"
    /\ result = Ok
    /\ target.env = "gnu"
    /\ ~IsSome(res.rc_file)
    /\ Len(procs) = 2
    /\ DirectivesPrinted

\* the lines the manifest-metadata reader may print
IsReaderDiagnostic(line) ==
    \/ line \in {"parsing error", "package section missing",
                 "package.metadata.winres does not exist",
                 "package.metadata.winres is not a table"}
    \/ StartsWith(line, "package.metadata.winres.") /\ EndsWith(line, " is not a string")

\* C3: when a build (new(), setters, compile()) ends with Ok, standard output
\* holds the two link directives, once each, and besides them only diagnostic
\* lines of the manifest-metadata reader.
C3_OnlyDirectivesAndDiagnostics ==
    (pc = "returned" /\ result = Ok) =>
        LET search == "cargo:rustc-link-search=native=" \o res.output_directory
            lib == IF target.env = "gnu" THEN "cargo:rustc-link-lib=static=resource"
                   ELSE "cargo:rustc-link-lib=dylib=resource"
        IN  /\ \A i \in 1..Len(stdout) :
                  stdout[i] \in {search, lib} \/ IsReaderDiagnostic(stdout[i])
            /\ Cardinality({i \in 1..Len(stdout) : stdout[i] = search}) = 1
            /\ Cardinality({i \in 1..Len(stdout) : stdout[i] = lib}) = 1

\* the decimal text of the words packed
WordText(w) ==
    CASE w = 0 -> "0"
      [] w = 1 -> "1"
      [] w = 65535 -> "65535"
      [] OTHER -> FmtDec16(w)

\* C4: for 16-bit words a, b, c, d, after set_version_info(field, a << 48 |
\* b << 32 | c << 16 | d) for FILEVERSION or PRODUCTVERSION the shifts by 48,
\* 32, 16 and 0 truncated to 16 bits give back a, b, c, d, and the script
\* written holds the line "<field> a, b, c, d" once.
C4_PackedWordsEmitted ==
    \A f \in DOMAIN hist.quad :
        LET q == hist.quad[f]
            v == res.version_info[f]
            line == f \o " " \o WordText(q[1]) \o ", " \o WordText(q[2]) \o ", "
                      \o WordText(q[3]) \o ", " \o WordText(q[4])
        IN  /\ <<AsU16(Shr(v, 48)), AsU16(Shr(v, 32)), AsU16(Shr(v, 16)), AsU16(v)>> = q
            /\ ScriptWritten => CopiesIn(line, WrittenScript.version) = 1

\* a script written after packing 65535.0.1.65535 as the file version
C4_Witness ==
    /\ ScriptWritten
    /\ "FILEVERSION" \in DOMAIN hist.quad
    /\ hist.quad["FILEVERSION"] = <<65535, 0, 1, 65535>>
    /\ CopiesIn("FILEVERSION 65535, 0, 1, 65535", WrittenScript.version) = 1

----------------------------------------------------------------------------
(* Properties of construction *)

\* the variables new() cannot do without, and the version components
RequiredEnv ==
    {"CARGO_PKG_VERSION", "CARGO_PKG_NAME", "CARGO_PKG_DESCRIPTION", "CARGO_MANIFEST_DIR"}

ComponentEnv ==
    {"CARGO_PKG_VERSION_MAJOR", "CARGO_PKG_VERSION_MINOR", "CARGO_PKG_VERSION_PATCH"}

\* the entries of package.metadata.winres in Cargo.toml, <<>> when the file,
\* the section or the table is not there
WinresEntries ==
    IF cargo_toml.kind # "text" \/ ~IsSome(cargo_toml.parse) THEN <<>>
    ELSE LET w == Lookup(TomlTable(Unwrap(cargo_toml.parse)), <<"package", "metadata", "winres">>)
         IN  IF IsSome(w) /\ Unwrap(w).type = "Table" THEN Unwrap(w).table ELSE <<>>

\* Cargo.toml is present with a winres table of strings
WinresPresent ==
    /\ WinresEntries # <<>>
    /\ \A i \in 1..Len(WinresEntries) : WinresEntries[i].val.type = "String"

\* what the environment gives for the seeded keys
EnvValue(k) ==
    CASE k = "FileVersion" -> env["CARGO_PKG_VERSION"]
      [] k = "ProductVersion" -> env["CARGO_PKG_VERSION"]
      [] k = "ProductName" -> env["CARGO_PKG_NAME"]
      [] k = "FileDescription" -> env["CARGO_PKG_DESCRIPTION"]
      [] OTHER -> None

\* C5: with the required environment variables set, new() returns whatever
\* the state of Cargo.toml (present with a winres section, absent, malformed,
\* without package or metadata.winres section, with non-string values), and
\* unless it is present with a winres section the properties are the seeded ones.
C5_NewSucceedsForEveryManifest ==
    (pc # "start" /\ \A n \in RequiredEnv \cup ComponentEnv : IsSome(env[n])) =>
        /\ pc = "ready"
        /\ ~WinresPresent =>
              /\ DOMAIN res.properties = {"FileVersion", "ProductVersion", "ProductName",
                                          "FileDescription"}
              /\ \A k \in DOMAIN res.properties : res.properties[k] = Unwrap(EnvValue(k))

\* new() gets as far as the call of get_sdk, and get_sdk returns
SdkReturns ==
    /\ \A n \in RequiredEnv \cup ComponentEnv : IsSome(env[n])
    /\ cargo_toml.kind = "text"
    /\ GetSdk.status # "panic"

\* C6: new() takes as toolkit_path the last entry of the list get_sdk returns,
\* and the empty string when the list is empty or get_sdk fails; it returns in
\* all three cases.
C6_DefaultToolkitPath ==
    (pc # "start" /\ SdkReturns) =>
        /\ pc = "ready"
        /\ res.toolkit_path =
              IF GetSdk.status = "ok" /\ GetSdk.kits # <<>>
              THEN GetSdk.kits[Len(GetSdk.kits)]
              ELSE ""

\* C7: with any of the major, minor, patch variables missing new() returns,
\* the missing component's word of FILEVERSION and PRODUCTVERSION is zero,
\* and so is the tweak word.
C7_MissingComponentIsZero ==
    (/\ pc # "start"
     /\ \A n \in RequiredEnv : IsSome(env[n])
     /\ cargo_toml.kind = "text"
     /\ GetSdk.status = "err"
     /\ \E n \in ComponentEnv : ~IsSome(env[n])) =>
        /\ pc = "ready"
        /\ \A f \in {"FILEVERSION", "PRODUCTVERSION"} :
              LET v == res.version_info[f]
              IN  /\ ~IsSome(env["CARGO_PKG_VERSION_MAJOR"]) => AsU16(Shr(v, 48)) = 0
                  /\ ~IsSome(env["CARGO_PKG_VERSION_MINOR"]) => AsU16(Shr(v, 32)) = 0
                  /\ ~IsSome(env["CARGO_PKG_VERSION_PATCH"]) => AsU16(Shr(v, 16)) = 0
                  /\ AsU16(v) = 0

\* the string package.metadata.winres gives key k, if any
MetaString(k) ==
    LET hits == {i \in 1..Len(WinresEntries) :
                    WinresEntries[i].key = k /\ WinresEntries[i].val.type = "String"}
    IN  IF hits = {} THEN None ELSE Some(WinresEntries[CHOOSE i \in hits : TRUE].val.str)

\* C8: a property holds the value of the most recent set() for its name;
\* failing that the string package.metadata.winres gives it; failing that
\* (a key the section does not hold, or holds with a non-string value) the
\* value seeded from the environment; and no other key exists.
C8_Precedence ==
    Constructed =>
        LET keys == (DOMAIN res.properties) \cup (DOMAIN hist.set_last)
                    \cup {WinresEntries[i].key : i \in 1..Len(WinresEntries)}
                    \cup {"FileVersion", "ProductVersion", "ProductName", "FileDescription"}
            expected(k) == IF k \in DOMAIN hist.set_last THEN Some(hist.set_last[k])
                           ELSE IF IsSome(MetaString(k)) THEN MetaString(k)
                           ELSE EnvValue(k)
        IN  \A k \in keys :
                /\ k \in DOMAIN res.properties <=> IsSome(expected(k))
                /\ k \in DOMAIN res.properties => res.properties[k] = Unwrap(expected(k))

\* metadata over the environment, set() over both, a non-string entry ignored
C8_Witness ==
    /\ pc = "ready"
    /\ cargo_toml = TomlMixed
    /\ hist.calls = 2
    /\ DOMAIN hist.set_last = {"Comments"}
    /\ res.properties["Comments"] = "v"
    /\ res.properties["ProductName"] = "Override"
    /\ res.properties["FileVersion"] = "1.2.3"
    /\ res.properties["FileDescription"] = ""

----------------------------------------------------------------------------
(* Properties of the script and of compile() *)

\* C9: the script written holds one line VALUE "<key>", "<value>" for each
\* property whose value is not empty, and no VALUE line for a property whose
\* value is empty.
C9_EmptyPropertiesSkipped ==
    ScriptWritten =>
        LET p == res.properties
            line(k) == "VALUE \"" \o k \o "\", \"" \o p[k] \o "\""
            values == WrittenScript.values
        IN  /\ \A k \in DOMAIN p : CopiesIn(line(k), values) = IF p[k] = "" THEN 0 ELSE 1
            /\ \A l \in BagToSet(values) : \E k \in DOMAIN p : p[k] # "" /\ l = line(k)
            /\ \A k \in DOMAIN p :
                  p[k] = "" => \A l \in BagToSet(values) : ~StartsWith(l, "VALUE \"" \o k \o "\"")

\* a script written with a seeded key emptied by the metadata section and
\* another emptied by set()
C9_Witness ==
    /\ ScriptWritten
    /\ cargo_toml = TomlMixed
    /\ res.properties["FileDescription"] = ""
    /\ res.properties["ProductName"] = ""
    /\ CopiesIn("VALUE \"FileVersion\", \"1.2.3\"", WrittenScript.values) = 1
    /\ BagCardinality(WrittenScript.values) = 2

\* C10: with rc_file set compile() writes no script, leaves every file as it
\* was until the compiler runs, and hands the override to the compiler; with
\* rc_file unset it writes <output_directory>\resource.rc and hands that path
\* to the compiler; the outputs are placed in output_directory in both cases.
C10_InputSelection ==
    InCompile =>
        LET out == res.output_directory
            generated == IF out = "" THEN "resource.rc"
                         ELSE IF Char(out, Len(out)) \in {"\\", "/"} THEN out \o "resource.rc"
                         ELSE out \o "\\resource.rc"
            input == IF IsSome(res.rc_file) THEN Unwrap(res.rc_file) ELSE generated
            gnu == target.env = "gnu"
        IN  /\ IsSome(res.rc_file) =>
                  /\ generated \notin DOMAIN fs
                  /\ \A f \in DOMAIN InitialFs : fs[f] = InitialFs[f]
            /\ (~IsSome(res.rc_file) /\ (pc # "returned" \/ procs # <<>>)) =>
                  /\ generated \in DOMAIN fs
                  /\ fs[generated] = [kind |-> "rc", script |-> Script(res),
                                      complete |-> TRUE, open |-> FALSE]
            /\ procs # <<>> =>
                  /\ procs[1].args[IF gnu THEN 2 ELSE 4] = input
                  /\ procs[1].args[3] = IF gnu THEN Join(out, "resource.o")
                                        ELSE "/fo" \o Join(out, "resource.lib")
            /\ Len(procs) = 2 =>
                  procs[2].args = <<"rsc", Join(out, "libresource.a"), Join(out, "resource.o")>>
            /\ DirectivesPrinted =>
                  \E i \in 1..Len(stdout) : stdout[i] = "cargo:rustc-link-search=native=" \o out

\* a build with an override that ran to the end
C10_Witness ==
    /\ pc = "returned"
    /\ result = Ok
    /\ res.rc_file = Some("C:\\p\\my.rc")
    /\ res.output_directory = "."
    /\ ".\\resource.rc" \notin DOMAIN fs
    /\ procs[1].args[IF target.env = "gnu" THEN 2 ELSE 4] = "C:\\p\\my.rc"

----------------------------------------------------------------------------
(* Properties of the manifest section *)

CountChar(s, c) == Cardinality({i \in 1..Len(s) : Char(s, i) = c})

\* t with every quote written twice
Doubled(t) ==
    LET upto[i \in 0..Len(t)] ==
            IF i = 0 THEN ""
            ELSE upto[i - 1] \o (IF Char(t, i) = "\"" THEN "\"\"" ELSE Char(t, i))
    IN  upto[Len(t)]

\* the decimal text of the FILETYPE values used
FileTypeText(v) ==
    CASE v = <<1, 0, 0, 0>> -> "1"
      [] v = <<2, 0, 0, 0>> -> "2"
      [] v = <<4, 3, 2, 1>> -> "281483566841860"
      [] OTHER -> FmtDec64(v)

\* C11: the manifest section of the script written follows the slot set.
\* Inline: "<FILETYPE value> 24", "{", then per source line the line trimmed,
\* its quotes doubled (k quotes become 2k), wrapped in one pair of quotes,
\* then "}".  File: the one line <FILETYPE value> 24 "<path>".  Neither: nothing.
C11_ManifestSection ==
    ScriptWritten =>
        LET sec == WrittenScript.manifest
            id == FileTypeText(res.version_info["FILETYPE"])
        IN  /\ IsSome(res.manifest) =>
                  LET src == Lines(Unwrap(res.manifest))
                  IN  /\ Len(sec) = Len(src) + 3
                      /\ sec[1] = id \o " 24"
                      /\ sec[2] = "{"
                      /\ sec[Len(sec)] = "}"
                      /\ \A i \in 1..Len(src) :
                            LET e == sec[i + 2]
                                inner == SubSeq(e, 2, Len(e) - 1)
                            IN  /\ Len(e) >= 2
                                /\ Char(e, 1) = "\""
                                /\ Char(e, Len(e)) = "\""
                                /\ inner = Doubled(Trim(src[i]))
                                /\ CountChar(inner, "\"") = 2 * CountChar(src[i], "\"")
            /\ (~IsSome(res.manifest) /\ IsSome(res.manifest_file)) =>
                  sec = <<id \o " 24 \"" \o Unwrap(res.manifest_file) \o "\"">>
            /\ (~IsSome(res.manifest) /\ ~IsSome(res.manifest_file)) => sec = <<>>

\* an indented three-line manifest with quotes, written for a DLL
C11_Witness ==
    /\ ScriptWritten
    /\ res.manifest = Some(" <a>\n\t<b c=\"d\" e=\"\"/> \r\n</a>")
    /\ res.version_info["FILETYPE"] = <<2, 0, 0, 0>>
    /\ WrittenScript.manifest =
          <<"2 24", "{", "\"<a>\"", "\"<b c=\"\"d\"\" e=\"\"\"\"/>\"", "\"</a>\"", "}">>

----------------------------------------------------------------------------
(* Properties of version_info *)

ManifestSet == IsSome(res.manifest) \/ IsSome(res.manifest_file)

ChangedFields == {f \in VersionFields : res'.version_info[f] # res.version_info[f]}

\* C12: from new() on, through every setter call and compile(), version_info
\* holds exactly the seven fields; one step changes the value of at most one
\* of them; so FILETYPE is there when the script is written, and a manifest
\* that is set (inline or file) is emitted under the FILETYPE value.
C12_VersionInfoComplete ==
    [][Constructed' =>
          /\ DOMAIN res'.version_info = VersionFields
          /\ Constructed => Cardinality(ChangedFields) <= 1
          /\ (ScriptWritten /\ ManifestSet)' =>
                /\ WrittenScript'.manifest # <<>>
                /\ StartsWith(WrittenScript'.manifest[1],
                              FileTypeText(res'.version_info["FILETYPE"]) \o " 24")]_vars

\* FILETYPE was set to 2, the other fields keep what new() gave them, and the
\* manifest file is emitted under 2
C12_Witness ==
    /\ ScriptWritten
    /\ DOMAIN res.version_info = VersionFields
    /\ res.version_info["FILETYPE"] = <<2, 0, 0, 0>>
    /\ res.version_info["FILEOS"] = <<4, 4, 0, 0>>
    /\ res.version_info["FILEFLAGSMASK"] = <<63, 0, 0, 0>>
    /\ res.manifest_file = Some("app.manifest")
    /\ WrittenScript.manifest = <<"2 24 \"app.manifest\"">>

====
